---- MODULE Spec2Model ----
(***************************************************************************)
(* Model of consumers/project_consumer_wilcox.py: a Kafka consumer that    *)
(* keeps, per author, a message count, the time the author was last seen   *)
(* and a smoothed average of the time between the author's messages, and   *)
(* redraws two charts after every message.                                 *)
(*                                                                         *)
(* Units.  Clock readings (time.time()) and stored averages are integers   *)
(* in milliseconds (4.0 s is 4000); round(x, 2) yields a whole number of   *)
(* hundredths of a second, which is stored as ten times that many ms.      *)
(***************************************************************************)
EXTENDS Integers, Sequences, FiniteSets, TLC

\* Number of messages the source delivers before it can only end.
MaxMsgs == 3

\* Values time.time() returns (ms).  They hold the scenario's readings
\* 100 s, 104 s, 105 s, 110 s and one reading off the hundredths grid.
ClockReadings == {100000, 104000, 104003, 105000, 110000}

\* Values of the "author" field that are strings.
AuthorStrings == {"x", "y", ""}

\* Dictionary keys process_message can create.
Keys == AuthorStrings \cup {"unknown"}

----------------------------------------------------------------------------
\* Payloads: what message.value can hold.
\*   kind   what json.loads makes of the text
\*   field  the "author" member of an object: absent, a string, or a list
\*   val    the string, when field = "str"
Junk(k) == [kind |-> k, field |-> "none", val |-> ""]

Obj(f, v) == [kind |-> "dict", field |-> f, val |-> v]

Payloads ==
    {Junk(k) : k \in {"invalid", "scalar", "array", "null"}}
      \cup {Obj("missing", ""), Obj("list", "")}
      \cup {Obj("str", s) : s \in AuthorStrings}

NoMessage == Junk("none")

\* json.loads(message): JSONDecodeError on invalid text, else the type of
\* the decoded value.
JsonLoads(m) == IF m.kind = "invalid" THEN "JSONDecodeError" ELSE m.kind

\* A type check that lets every decoded value through.
IsDict_AnyValue(m) == JsonLoads(m) # "JSONDecodeError"

\* isinstance(message_dict, dict)
IsDict(m) == JsonLoads(m) = "dict"

\* A value held by the local variable author: a hashable string, or a list
\* (unhashable).
StrValue(s) == [hashable |-> TRUE, key |-> s]

ListValue == [hashable |-> FALSE, key |-> "[]"]

NoAuthor == [hashable |-> FALSE, key |-> "<unset>"]

\* message_dict.get("author", "unknown")
GetAuthor(m) ==
    IF m.field = "missing" THEN StrValue("unknown")
    ELSE IF m.field = "list" THEN ListValue
    ELSE StrValue(m.val)

\* A store that forgets every other key.
Store_Fresh(d, k, v) == [a \in {k} |-> v]

\* Dictionary d with d[k] = v stored (the key is added when it is new).
Store(d, k, v) == [a \in DOMAIN d \cup {k} |-> IF a = k THEN v ELSE d[a]]

\* An order in which the key that is stored moves to the end.
Inserted_MoveToEnd(order, d, k) ==
    Append(SelectSeq(order, LAMBDA a : a # k), k)

\* The insertion order of a dictionary d after d[k] is stored: a new key
\* goes to the end, a known key keeps its place.
Inserted(order, d, k) == IF k \in DOMAIN d THEN order ELSE Append(order, k)

\* A count that is set instead of raised.
Increment_Set(d, k) == Store(d, k, 1)

\* defaultdict(int): author_counts[k] += 1
Increment(d, k) == Store(d, k, (IF k \in DOMAIN d THEN d[k] ELSE 0) + 1)

\* round(x, 2) for x = h / 2 ms, as a number of hundredths of a second.
\* h / 20 hundredths is rounded to the nearest whole number; when x lies
\* exactly between two hundredths, the float that stands for x is not x and
\* round returns the neighbour the float is nearer to: either one.
Round2(h) ==
    LET q == h \div 20
        r == h % 20
    IN  IF r < 10 THEN {q}
        ELSE IF r > 10 THEN {q + 1}
        ELSE {q, q + 1}

\* line 103: time_diff = current_time - last_seen_timestamps[author]  (ms)
TimeDiff(t, last) == t - last

\* line 104: prev_avg = average_deltas.get(author, time_diff)  (ms)
PrevAvg(deltas, k, time_diff) ==
    IF k \in DOMAIN deltas THEN deltas[k] ELSE time_diff

\* An average that forgets the previous one.
NewAvg_LastGap(prev_avg, time_diff) ==
    {10 * v : v \in Round2(time_diff + time_diff)}

\* An average stored as computed, to the millisecond.
NewAvg_Unrounded(prev_avg, time_diff) == {(prev_avg + time_diff) \div 2}

\* lines 105-106: the values round((prev_avg + time_diff) / 2, 2) can take
\* (ms).
NewAvg(prev_avg, time_diff) == {10 * v : v \in Round2(prev_avg + time_diff)}

\* A first message averaged against a last-seen time of 0.
UpdateAverage_FirstUsesClock(deltas, last_seen, k, t) ==
    IF k \in DOMAIN last_seen
      THEN LET time_diff == TimeDiff(t, last_seen[k])
               prev_avg == PrevAvg(deltas, k, time_diff)
           IN  {Store(deltas, k, v) : v \in NewAvg(prev_avg, time_diff)}
      ELSE {Store(deltas, k, v) : v \in NewAvg(0, TimeDiff(t, 0))}

\* A first message that stores no average.
UpdateAverage_SkipFirst(deltas, last_seen, k, t) ==
    IF k \in DOMAIN last_seen
      THEN LET time_diff == TimeDiff(t, last_seen[k])
               prev_avg == PrevAvg(deltas, k, time_diff)
           IN  {Store(deltas, k, v) : v \in NewAvg(prev_avg, time_diff)}
      ELSE {deltas}

\* An update that runs over every known author instead of the message's.
UpdateAverage_AllAuthors(deltas, last_seen, k, t) ==
    IF k \in DOMAIN last_seen
      THEN {[a \in DOMAIN deltas |->
               CHOOSE v \in NewAvg(deltas[a], TimeDiff(t, last_seen[a])) :
                 TRUE]}
      ELSE {Store(deltas, k, 0)}

\* lines 102-108: the values average_deltas can have after the message of
\* author k is timed at clock reading t.
UpdateAverage(deltas, last_seen, k, t) ==
    IF k \in DOMAIN last_seen
      THEN LET time_diff == TimeDiff(t, last_seen[k])
               prev_avg == PrevAvg(deltas, k, time_diff)
           IN  {Store(deltas, k, v) : v \in NewAvg(prev_avg, time_diff)}
      ELSE {Store(deltas, k, 0)}

----------------------------------------------------------------------------
VARIABLES
    consumer,               \* "none", "open", "closed"
    pc,                     \* position of main / process_message
    message,                \* message.value of the message being processed
    author,                 \* local of process_message
    current_time,           \* local of process_message
    author_counts,          \* author -> count
    author_order,           \* the keys of author_counts in insertion order
    last_seen_timestamps,   \* author -> clock reading (ms)
    average_deltas,         \* author -> average (ms)
    outcome,                \* what process_message logged when it last returned
    ending,                 \* how the loop of main ended
    delivered,              \* messages pulled from the consumer
    expected,               \* author -> messages delivered that resolve to it
    renders,                \* calls of update_charts
    closes,                 \* calls of consumer.close()
    scenario                \* events matched against ScenarioEvents, -1: none

vars == <<consumer, pc, message, author, current_time, author_counts,
          author_order, last_seen_timestamps, average_deltas, outcome,
          ending, delivered, expected, renders, closes, scenario>>

dicts == <<author_counts, last_seen_timestamps, average_deltas>>

locals == <<message, author, current_time>>

\* The empty dictionary.
Empty == [a \in {} |-> 0]

\* The events of the scenario: author and clock reading.
ScenarioEvents ==
    <<(<<"x", 100000>>), (<<"x", 104000>>), (<<"y", 105000>>), (<<"x", 110000>>)>>

\* The key a delivered payload resolves to, if any.
Resolves(m) ==
    IF IsDict(m) /\ GetAuthor(m).hashable THEN {GetAuthor(m).key} ELSE {}

Init ==
    /\ consumer = "none"
    /\ pc = "main"
    /\ message = NoMessage
    /\ author = NoAuthor
    /\ current_time = 0
    /\ author_counts = Empty
    /\ author_order = <<>>
    /\ last_seen_timestamps = Empty
    /\ average_deltas = Empty
    /\ outcome = "none"
    /\ ending = "none"
    /\ delivered = 0
    /\ expected = [a \in Keys |-> 0]
    /\ renders = 0
    /\ closes = 0
    /\ scenario = 0

----------------------------------------------------------------------------
\* main, lines 128-133: the consumer is created before the try block.
CreateConsumer ==
    /\ pc = "main"
    /\ consumer' = "open"
    /\ pc' = "poll"
    /\ UNCHANGED <<locals, dicts, outcome, ending, delivered, expected,
                   renders, closes, scenario, author_order>>

\* main, lines 135-138: the iterator yields a message and process_message
\* is called with message.value.
NextMessage ==
    /\ pc = "poll"
    /\ delivered < MaxMsgs
    /\ \E m \in Payloads :
          /\ message' = m
          /\ expected' = [a \in Keys |->
                            expected[a] + (IF a \in Resolves(m) THEN 1 ELSE 0)]
    /\ delivered' = delivered + 1
    /\ pc' = "loads"
    /\ UNCHANGED <<consumer, author, current_time, dicts, outcome, ending,
                   renders, closes, scenario, author_order>>

\* main, lines 135-138, for a source that holds only object messages of the
\* authors x and y, and one message more than the source of NextMessage.
NextEvent ==
    /\ pc = "poll"
    /\ delivered <= MaxMsgs
    /\ \E m \in {Obj("str", "x"), Obj("str", "y")} :
          /\ message' = m
          /\ expected' = [a \in Keys |->
                            expected[a] + (IF a \in Resolves(m) THEN 1 ELSE 0)]
    /\ delivered' = delivered + 1
    /\ pc' = "loads"
    /\ UNCHANGED <<consumer, author, current_time, dicts, outcome, ending,
                   renders, closes, scenario, author_order>>

\* main, line 135: the iterator ends (consumer timeout).
SourceExhausted ==
    /\ pc = "poll"
    /\ ending' = "exhausted"
    /\ pc' = "finally"
    /\ UNCHANGED <<consumer, locals, dicts, outcome, delivered, expected,
                   renders, closes, scenario, author_order>>

\* main, lines 141-142: the iterator raises.
SourceError ==
    /\ pc = "poll"
    /\ ending' = "error"
    /\ pc' = "finally"
    /\ UNCHANGED <<consumer, locals, dicts, outcome, delivered, expected,
                   renders, closes, scenario, author_order>>

\* An interrupt handled without a finally block.
KeyboardInterrupt_NoFinally ==
    /\ pc \in {"poll", "loads", "count", "timing", "stamp", "render"}
    /\ ending' = "interrupt"
    /\ pc' = "done"
    /\ UNCHANGED <<consumer, locals, dicts, outcome, delivered, expected,
                   renders, closes, scenario, author_order>>

\* main, lines 139-140: KeyboardInterrupt is not an Exception, so it leaves
\* process_message at whatever line it is raised and ends the loop.
KeyboardInterrupt ==
    /\ pc \in {"poll", "loads", "count", "timing", "stamp", "render"}
    /\ ending' = "interrupt"
    /\ pc' = "finally"
    /\ UNCHANGED <<consumer, locals, dicts, outcome, delivered, expected,
                   renders, closes, scenario, author_order>>

\* main, lines 143-145
Close ==
    /\ pc = "finally"
    /\ consumer' = "closed"
    /\ closes' = closes + 1
    /\ pc' = "done"
    /\ UNCHANGED <<locals, dicts, outcome, ending, delivered, expected,
                   renders, scenario, author_order>>

----------------------------------------------------------------------------
\* process_message returns after logging o: its parameter and its locals
\* are gone, and main is back at the head of the loop.
Return(o) ==
    /\ outcome' = o
    /\ pc' = "poll"
    /\ message' = NoMessage
    /\ author' = NoAuthor
    /\ current_time' = 0

\* process_message, lines 93-97 and 115-119
Loads ==
    /\ pc = "loads"
    /\ IF JsonLoads(message) = "JSONDecodeError"
         THEN Return("invalid_json")
         ELSE IF IsDict(message)
           THEN /\ author' = GetAuthor(message)
                /\ pc' = "count"
                /\ UNCHANGED <<message, current_time, outcome>>
           ELSE Return("not_dict")
    /\ UNCHANGED <<consumer, dicts, ending, delivered, expected, renders,
                   closes, scenario, author_order>>

\* process_message, line 98 (TypeError for an unhashable key: lines 120-121)
Count ==
    /\ pc = "count"
    /\ IF author.hashable
         THEN /\ author_counts' = Increment(author_counts, author.key)
              /\ author_order' =
                     Inserted(author_order, author_counts, author.key)
              /\ pc' = "timing"
              /\ UNCHANGED <<locals, outcome>>
         ELSE /\ Return("type_error")
              /\ UNCHANGED <<author_counts, author_order>>
    /\ UNCHANGED <<consumer, last_seen_timestamps, average_deltas, ending,
                   delivered, expected, renders, closes, scenario>>

\* The scenario monitor after the event <<k, t>>.
Matched(k, t) ==
    IF /\ scenario >= 0
       /\ scenario < Len(ScenarioEvents)
       /\ ScenarioEvents[scenario + 1] = <<k, t>>
    THEN scenario + 1
    ELSE -1

\* A timing step that raises an exception process_message catches.
Timing_Caught ==
    /\ pc = "timing"
    /\ Return("type_error")
    /\ UNCHANGED <<consumer, dicts, ending, delivered, expected, renders,
                   closes, scenario, author_order>>

\* process_message, lines 101-108
Timing ==
    /\ pc = "timing"
    /\ \E t \in ClockReadings :
          /\ current_time' = t
          /\ scenario' = Matched(author.key, t)
          /\ average_deltas' \in
                 UpdateAverage(average_deltas, last_seen_timestamps,
                               author.key, t)
    /\ pc' = "stamp"
    /\ UNCHANGED <<consumer, message, author, author_counts,
                   last_seen_timestamps, outcome, ending, delivered,
                   expected, renders, closes, author_order>>

\* time.time() at line 101 when the clock does not go back: the reading is
\* no earlier than any reading stored before.
MonotoneTiming ==
    /\ Timing
    /\ \A a \in DOMAIN last_seen_timestamps :
          last_seen_timestamps[a] <= current_time'

\* A message stamped with a second reading of the clock.
Stamp_SecondReading ==
    /\ pc = "stamp"
    /\ \E t \in ClockReadings :
          last_seen_timestamps' = Store(last_seen_timestamps, author.key, t)
    /\ pc' = "render"
    /\ UNCHANGED <<consumer, locals, author_counts, average_deltas, outcome,
                   ending, delivered, expected, renders, closes, scenario,
                   author_order>>

\* A message whose clock reading is not kept.
Stamp_Unstored ==
    /\ pc = "stamp"
    /\ pc' = "render"
    /\ UNCHANGED <<consumer, locals, dicts, outcome, ending, delivered,
                   expected, renders, closes, scenario, author_order>>

\* process_message, line 110
Stamp ==
    /\ pc = "stamp"
    /\ last_seen_timestamps' =
           Store(last_seen_timestamps, author.key, current_time)
    /\ pc' = "render"
    /\ UNCHANGED <<consumer, locals, author_counts, average_deltas, outcome,
                   ending, delivered, expected, renders, closes, scenario,
                   author_order>>

\* update_charts, line 74: average_deltas[author] for every key of
\* author_counts; a missing key raises KeyError.
LookupMisses == DOMAIN author_counts \ DOMAIN average_deltas

\* update_charts, line 62: authors = list(author_counts.keys())
ReadAuthors == author_order

\* update_charts, line 63: counts = list(author_counts.values())
ReadCounts == [i \in 1..Len(author_order) |-> author_counts[author_order[i]]]

\* update_charts, line 74: avg_times
ReadAvgTimes(authors) ==
    [i \in 1..Len(authors) |-> average_deltas[authors[i]]]

\* A chart update that zeroes the average of the author it was called for.
RenderOk_Resets ==
    /\ pc = "render"
    /\ LookupMisses = {}
    /\ renders' = renders + 1
    /\ Return("ok")
    /\ average_deltas' = Store(average_deltas, author.key, 0)
    /\ UNCHANGED <<consumer, author_counts, last_seen_timestamps, ending,
                   delivered, expected, closes, scenario, author_order>>

\* process_message, lines 112-113: update_charts returns.
RenderOk ==
    /\ pc = "render"
    /\ LookupMisses = {}
    /\ renders' = renders + 1
    /\ Return("ok")
    /\ UNCHANGED <<consumer, dicts, ending, delivered, expected, closes,
                   scenario, author_order>>

\* A failed chart update that takes the message's count back.
RenderError_Rollback ==
    /\ pc = "render"
    /\ renders' = renders + 1
    /\ Return("render_error")
    /\ author_counts' =
           Store(author_counts, author.key, author_counts[author.key] - 1)
    /\ UNCHANGED <<consumer, last_seen_timestamps, average_deltas, ending,
                   delivered, expected, closes, scenario, author_order>>

\* An exception of the chart update that leaves process_message and ends
\* the loop.
RenderError_Propagates ==
    /\ pc = "render"
    /\ renders' = renders + 1
    /\ outcome' = "render_error"
    /\ ending' = "error"
    /\ pc' = "finally"
    /\ UNCHANGED <<consumer, message, author, current_time, dicts,
                   delivered, expected, closes, scenario, author_order>>

\* process_message, lines 112 and 120-121: update_charts raises (the
\* plotting backend fails, or line 74 misses a key).
RenderError ==
    /\ pc = "render"
    /\ renders' = renders + 1
    /\ Return("render_error")
    /\ UNCHANGED <<consumer, dicts, ending, delivered, expected, closes,
                   scenario, author_order>>

Next ==
    \/ CreateConsumer
    \/ NextMessage
    \/ SourceExhausted
    \/ SourceError
    \/ KeyboardInterrupt
    \/ Close
    \/ Loads
    \/ Count
    \/ Timing
    \/ Stamp
    \/ RenderOk
    \/ RenderError

Spec == Init /\ [][Next]_vars

\* The program under a clock that does not go back.
MonotoneNext ==
    \/ CreateConsumer
    \/ NextMessage
    \/ SourceExhausted
    \/ SourceError
    \/ KeyboardInterrupt
    \/ Close
    \/ Loads
    \/ Count
    \/ MonotoneTiming
    \/ Stamp
    \/ RenderOk
    \/ RenderError

MonotoneSpec == Init /\ [][MonotoneNext]_vars

\* The program fed by the source of NextEvent.
EventNext ==
    \/ CreateConsumer
    \/ NextEvent
    \/ SourceExhausted
    \/ SourceError
    \/ KeyboardInterrupt
    \/ Close
    \/ Loads
    \/ Count
    \/ Timing
    \/ Stamp
    \/ RenderOk
    \/ RenderError

EventSpec == Init /\ [][EventNext]_vars

\* main runs on: once the loop has ended, the finally block is executed.
FairSpec == Spec /\ WF_vars(Close)

----------------------------------------------------------------------------
\* The value a dictionary holds for key a: <<v>>, or <<>> when a is no key.
Lookup(d, a) == IF a \in DOMAIN d THEN <<d[a]>> ELSE <<>>

\* author_counts[a] as the defaultdict reads it.
CountOf(a) == IF a \in DOMAIN author_counts THEN author_counts[a] ELSE 0

\* All that is stored for author a.
Entry(a) ==
    <<Lookup(author_counts, a), Lookup(last_seen_timestamps, a),
      Lookup(average_deltas, a)>>

\* No message is being processed and none was abandoned half-way.
Idle == message = NoMessage

\* The positions of the run loop.
LoopPcs == {"poll", "loads", "count", "timing", "stamp", "render"}

\* The step that times a message of an author seen before.
LaterEventTimed ==
    /\ pc = "timing"
    /\ pc' = "stamp"
    /\ author.key \in DOMAIN last_seen_timestamps
    /\ author.key \in DOMAIN average_deltas

\* prev_avg + time_diff of that step (ms).
StepSum ==
    average_deltas[author.key]
      + (current_time' - last_seen_timestamps[author.key])

\* The outcome of the scenario x@100, x@104, y@105, x@110, once its last
\* event has been processed and no further message has been taken up.
ScenarioResult ==
    (scenario = Len(ScenarioEvents) /\ Idle) =>
        /\ CountOf("x") = 3
        /\ Lookup(average_deltas, "x") = <<4000>>
        /\ CountOf("y") = 1
        /\ Lookup(average_deltas, "y") = <<0>>

\* C1: once every delivered message has been processed, author_counts[A] is
\* the number of delivered object messages whose author resolves to A (a
\* failing chart update included); no step lowers a count or raises it by
\* more than 1.
C1_CountIsEventCount ==
    /\ [](Idle => \A a \in Keys : CountOf(a) = expected[a])
    /\ [][\A a \in Keys : /\ CountOf(a)' >= CountOf(a)
                          /\ CountOf(a)' <= CountOf(a) + 1]_vars

\* C1 witness: an author counted twice, the last chart update having failed.
C1_Witness ==
    /\ pc = "poll"
    /\ outcome = "render_error"
    /\ \E a \in Keys : CountOf(a) = 2 /\ expected[a] = 2

\* C2 as stated: the stored average is exactly (avg_{n-1} + d_n) / 2, and
\* the scenario ends with x.count = 3, x.averageInterval = 4.0, y.count = 1,
\* y.averageInterval = 0.0.
C2_ExactRecurrence ==
    /\ [][LaterEventTimed => 2 * average_deltas'[author.key] = StepSum]_vars
    /\ []ScenarioResult

\* C2 amended: the stored average is round((avg_{n-1} + d_n) / 2, 2), and
\* the scenario ends as stated.
C2_RoundedRecurrence ==
    /\ [][LaterEventTimed =>
             \E v \in Round2(StepSum) : average_deltas'[author.key] = 10 * v]_vars
    /\ []ScenarioResult

\* C2 witness: the scenario has been processed to its last event.
C2_Witness == scenario = Len(ScenarioEvents) /\ Idle /\ pc = "poll"

\* C3: averageInterval is >= 0 for every author in every reachable state.
C3_AverageNonNegative ==
    \A a \in DOMAIN average_deltas : average_deltas[a] >= 0

\* C4: a payload that is invalid JSON or no JSON object changes none of the
\* three dictionaries, from its delivery to the return of process_message,
\* causes no chart update, and leaves main at the head of the loop with the
\* consumer open.
C4_BadPayloadSkipped ==
    [][(\/ pc = "poll" /\ pc' = "loads" /\ message'.kind # "dict"
        \/ pc = "loads" /\ message.kind # "dict")
         => /\ dicts' = dicts
            /\ renders' = renders
            /\ (pc = "loads" /\ pc' # "finally"
                  => pc' = "poll" /\ consumer' = "open")]_vars

\* C4 witness: after a rejected payload the next message, an object, has
\* been counted, timed and stamped.
C4_Witness ==
    /\ pc = "render"
    /\ outcome \in {"invalid_json", "not_dict"}
    /\ CountOf(author.key) >= 1

\* C5: an author counted once has averageInterval 0 and, from line 110 on,
\* a last-seen time that is the clock reading of that message; the message
\* is timed by the first-message branch.
C5_FirstEventIsZero ==
    pc \in LoopPcs =>
      \A a \in DOMAIN author_counts :
        author_counts[a] = 1 =>
          IF pc = "timing" /\ author.key = a
            THEN a \notin DOMAIN last_seen_timestamps
            ELSE /\ Lookup(average_deltas, a) = <<0>>
                 /\ IF pc = "stamp" /\ author.key = a
                      THEN a \notin DOMAIN last_seen_timestamps
                      ELSE /\ a \in DOMAIN last_seen_timestamps
                           /\ pc = "render" /\ author.key = a
                                => last_seen_timestamps[a] = current_time

\* C5 witness: a first message has been processed and a message of another
\* author is at its chart update.
C5_Witness ==
    /\ pc = "render"
    /\ \E a \in DOMAIN author_counts : a # author.key /\ author_counts[a] = 1
    /\ author_counts[author.key] = 1


\* C6: what is stored for an author changes only in the steps that process
\* a message of that author.
C6_OtherAuthorsUntouched ==
    [][\A a \in Keys :
         Entry(a)' # Entry(a) =>
           /\ pc \in {"count", "timing", "stamp"}
           /\ author = StrValue(a)]_vars

\* C6 witness: with two authors known, a later message of one of them is at
\* its chart update.
C6_Witness ==
    /\ pc = "render"
    /\ Cardinality(DOMAIN author_counts) = 2
    /\ author_counts[author.key] = 2

\* C7: when the chart update raises, the three dictionaries stay as they
\* are, with the count, the last-seen time and the average written for the
\* message, the error is logged, and main is back at the head of the loop
\* with the consumer open.
C7_RenderErrorKeepsState ==
    [][\A k \in Keys, t \in ClockReadings :
         (/\ pc = "render" /\ author = StrValue(k) /\ current_time = t
          /\ renders' # renders /\ outcome' = "render_error")
           => /\ dicts' = dicts
              /\ CountOf(k)' >= 1
              /\ Lookup(last_seen_timestamps, k)' = <<t>>
              /\ k \in DOMAIN average_deltas'
              /\ pc' = "poll"
              /\ consumer' = "open"]_vars

\* C7 witness: a chart update failed and the next message has come to its
\* own chart update.
C7_Witness ==
    /\ pc = "render"
    /\ outcome = "render_error"
    /\ renders >= 1

\* C8: an object whose author is missing or the empty string is processed
\* under the key "unknown", and "" is never a key.
C8_EmptyOrMissingIsUnknown ==
    /\ "" \notin DOMAIN author_counts
    /\ (/\ pc \in {"count", "timing", "stamp", "render"}
        /\ \/ message.field = "missing"
           \/ message.field = "str" /\ message.val = "")
         => author = StrValue("unknown")

\* C9: the consumer is closed exactly once, after the loop and only then;
\* every end of the loop leads to the finally block, which closes it; once
\* the loop has ended no message is pulled, no dictionary changes and no
\* chart is updated.
C9_ClosedOnceAfterLoop ==
    /\ [](/\ closes <= 1
          /\ pc = "done" => closes = 1 /\ consumer = "closed"
          /\ pc \in LoopPcs \cup {"finally"} => closes = 0 /\ consumer = "open")
    /\ [][(pc \in LoopPcs /\ pc' \notin LoopPcs) => (pc' = "finally")]_vars
    /\ [][(pc \in {"finally", "done"})
            => (/\ delivered' = delivered
                /\ dicts' = dicts
                /\ renders' = renders
                /\ pc' = "done")]_vars
    /\ (pc = "finally" ~> (pc = "done" /\ closes = 1))

\* C9 witness: the loop was interrupted while a message was being processed
\* and the consumer has been closed.
C9_Witness ==
    /\ pc = "done"
    /\ ending = "interrupt"
    /\ ~Idle
    /\ consumer = "closed"

\* C10: between messages and at the chart update the three dictionaries have
\* the same keys and every count is >= 1; line 74 misses no key, and line
\* 104 never falls back on its default.
C10_SameKeys ==
    /\ (pc \in {"main", "poll", "loads", "count", "render"} \/ Idle)
         => /\ DOMAIN author_counts = DOMAIN last_seen_timestamps
            /\ DOMAIN author_counts = DOMAIN average_deltas
            /\ \A a \in DOMAIN author_counts : author_counts[a] >= 1
    /\ pc = "render" => LookupMisses = {}
    /\ (pc = "timing" /\ author.key \in DOMAIN last_seen_timestamps)
         => author.key \in DOMAIN average_deltas

\* C10 witness: a chart update over two authors, the one seen twice not
\* being the author of the message.
C10_Witness ==
    /\ pc = "render"
    /\ Cardinality(DOMAIN author_counts) = 2
    /\ \E a \in DOMAIN author_counts : a # author.key /\ author_counts[a] = 2


\* The place of author a in the sequence order (0: none).
IndexOf(order, a) ==
    IF \E i \in 1..Len(order) : order[i] = a
      THEN CHOOSE i \in 1..Len(order) : order[i] = a
      ELSE 0

\* The number of delivered messages that resolve to an author.
Attributed ==
    expected["x"] + expected["y"] + expected[""] + expected["unknown"]

\* process_message returns to the loop only from the chart update, which
\* it calls once.
ReturnsThroughRender ==
    /\ pc = "render"
    /\ renders' = renders + 1

\* Lines 98, 101-108, 110 and 112 run in this order, the chart update is
\* called at line 112 alone, a message is pulled at the head of the loop
\* alone, and once every delivered message has been processed there has
\* been one call for each message that resolves to an author.
RenderInOrder ==
    /\ [][/\ pc' = "timing" => pc \in {"count", "timing"}
          /\ pc' = "stamp" => pc \in {"timing", "stamp"}
          /\ pc' = "render" => pc \in {"stamp", "render"}
          /\ renders' # renders => ReturnsThroughRender /\ pc' = "poll"
          /\ delivered' # delivered => pc = "poll"]_vars
    /\ [](Idle => renders = Attributed)

\* What the chart update reads holds every author of the three
\* dictionaries, the author of the message among them with the count
\* raised for the message, its average, and its clock reading stored.
RenderReadsAll ==
    pc = "render" =>
      LET authors == ReadAuthors
          i == IndexOf(authors, author.key)
      IN  /\ {authors[j] : j \in 1..Len(authors)} = DOMAIN author_counts
          /\ DOMAIN average_deltas = DOMAIN author_counts
          /\ DOMAIN last_seen_timestamps = DOMAIN author_counts
          /\ i > 0
          /\ ReadCounts[i] = expected[author.key]
          /\ ReadAvgTimes(authors)[i] = average_deltas[author.key]
          /\ last_seen_timestamps[author.key] = current_time

\* C11 as stated: every decoded message (a JSON object) that process_message
\* finishes is rendered exactly once, after its three updates and before
\* the next message is pulled, and the render reads the full updated state.
C11_EveryObjectRendered ==
    /\ [][(pc \in {"count", "timing", "stamp", "render"} /\ pc' = "poll")
            => ReturnsThroughRender]_vars
    /\ RenderInOrder
    /\ []RenderReadsAll

\* C11 amended: the same for every decoded message whose author can be a
\* dictionary key.
C11_EveryKeyedObjectRendered ==
    /\ [][(/\ pc \in {"count", "timing", "stamp", "render"}
           /\ author.hashable
           /\ pc' = "poll")
            => ReturnsThroughRender]_vars
    /\ RenderInOrder
    /\ []RenderReadsAll

\* C11 witness: the second message of an author is at its chart update,
\* another author being known.
C11_Witness ==
    /\ pc = "render"
    /\ Len(author_order) = 2
    /\ author_counts[author.key] = 2
    /\ renders = 2

\* The authors that have an entry in some dictionary.
KnownAuthors ==
    DOMAIN author_counts \cup DOMAIN last_seen_timestamps
        \cup DOMAIN average_deltas

\* C12: no step of the process removes an author from a dictionary: the key
\* set of each of the three only grows.
C12_AuthorsOnlyGrow ==
    [][/\ DOMAIN author_counts \subseteq DOMAIN author_counts'
       /\ DOMAIN last_seen_timestamps \subseteq DOMAIN last_seen_timestamps'
       /\ DOMAIN average_deltas \subseteq DOMAIN average_deltas'
       /\ KnownAuthors \subseteq KnownAuthors']_vars

\* C12 witness: two authors are known after three messages, the last of
\* which was dropped for a decode error.
C12_Witness ==
    /\ Cardinality(KnownAuthors) = 2
    /\ delivered = 3
    /\ outcome = "invalid_json"
    /\ Idle

\* C13: the reading of line 101 is the one the average is computed from and
\* the one stored as the author's last-seen time when the message has been
\* processed; under a clock that does not go back no author's last-seen
\* time ever decreases.
C13_LastSeenIsReceiveTime ==
    /\ [][(pc = "timing" /\ pc' = "stamp") =>
            average_deltas' \in
                UpdateAverage(average_deltas, last_seen_timestamps,
                              author.key, current_time')]_vars
    /\ [][(pc = "render" /\ pc' = "poll") =>
            /\ author.key \in DOMAIN last_seen_timestamps'
            /\ last_seen_timestamps'[author.key] = current_time]_vars
    /\ [][\A a \in DOMAIN last_seen_timestamps :
            last_seen_timestamps[a] <= last_seen_timestamps'[a]]_vars

\* C13 witness: an author's second message has been processed, its reading
\* later than the first and stored.
C13_Witness ==
    /\ Idle
    /\ outcome = "ok"
    /\ \E a \in DOMAIN last_seen_timestamps :
          /\ author_counts[a] = 2
          /\ last_seen_timestamps[a] = 104003
          /\ average_deltas[a] > 0

\* C14: a call of update_charts, whether it returns or raises, leaves the
\* three dictionaries as they were: same keys in the same order, same
\* values.
C14_RenderLeavesState ==
    [][renders' # renders =>
         /\ author_counts' = author_counts
         /\ last_seen_timestamps' = last_seen_timestamps
         /\ average_deltas' = average_deltas
         /\ author_order' = author_order]_vars

\* C14 witness: the chart update has returned for the third time, an
\* average above zero being stored.
C14_Witness ==
    /\ Idle
    /\ outcome = "ok"
    /\ renders = 3
    /\ \E a \in DOMAIN average_deltas : average_deltas[a] > 0

\* The positions inside process_message.
ProcessPcs == {"loads", "count", "timing", "stamp", "render"}

\* C15: a message is pulled only at the head of the loop with no message in
\* hand, one at a time, and is handed to process_message in the same step;
\* the message in hand stays the same until process_message returns, and
\* process_message always returns to the head of the loop, whatever the
\* outcome, so that only an interrupt ends the loop inside it.
C15_OneAtATimeInOrder ==
    /\ [][delivered' # delivered =>
            /\ pc = "poll" /\ Idle
            /\ delivered' = delivered + 1
            /\ message' \in Payloads
            /\ pc' = "loads"]_vars
    /\ [][(pc \in ProcessPcs /\ pc' \in ProcessPcs) =>
            (message' = message /\ delivered' = delivered)]_vars
    /\ [][(pc \in ProcessPcs /\ pc' \notin ProcessPcs) =>
            \/ pc' = "poll" /\ message' = NoMessage /\ consumer' = "open"
            \/ pc' = "finally" /\ ending' = "interrupt"]_vars
    /\ [](pc \in ProcessPcs <=> (pc \in LoopPcs /\ ~Idle))

\* C15 witness: the third message is being processed after a decode error
\* and an exception of the chart update.
C15_Witness ==
    /\ delivered = 3
    /\ pc = "count"
    /\ renders = 1
    /\ outcome = "render_error"
    /\ Attributed = 2

\* Sequence s is a prefix of sequence t.
IsPrefix(s, t) == Len(s) <= Len(t) /\ SubSeq(t, 1, Len(s)) = s

\* C16: the author sequence the chart update reads only grows at its end,
\* by the author of the message being counted when that author is new, and
\* names every counted author once; at a chart update the count list and
\* the average list have one entry for each author of the sequence, in its
\* order.
C16_FirstSeenOrder ==
    /\ [][IsPrefix(ReadAuthors, ReadAuthors')]_vars
    /\ [][ReadAuthors' # ReadAuthors =>
            /\ pc = "count"
            /\ author.key \notin DOMAIN author_counts
            /\ ReadAuthors' = Append(ReadAuthors, author.key)]_vars
    /\ [](/\ Len(ReadAuthors) = Cardinality(DOMAIN author_counts)
          /\ \A a \in DOMAIN author_counts : IndexOf(ReadAuthors, a) > 0)
    /\ [](pc = "render" =>
            LET authors == ReadAuthors
            IN  /\ LookupMisses = {}
                /\ Len(ReadCounts) = Len(authors)
                /\ Len(ReadAvgTimes(authors)) = Len(authors)
                /\ \A i \in 1..Len(authors) :
                      /\ ReadCounts[i] = CountOf(authors[i])
                      /\ ReadAvgTimes(authors)[i] =
                             average_deltas[authors[i]])

\* C16 witness: the chart update is called for a third message, of the
\* author seen first, a second author being known.
C16_Witness ==
    /\ pc = "render"
    /\ delivered = 3
    /\ Len(ReadAuthors) = 2
    /\ ReadAuthors[1] = author.key
    /\ ReadCounts = <<2, 1>>

\* C17: every stored average is a whole number of hundredths of a second,
\* and the average stored for a later message of an author is
\* round((stored + d) / 2, 2) for the average stored before and the gap d
\* to the author's previous message.
C17_RoundedAtStorage ==
    /\ [](\A a \in DOMAIN average_deltas : average_deltas[a] % 10 = 0)
    /\ [][LaterEventTimed =>
            average_deltas'[author.key] \in
                NewAvg(average_deltas[author.key],
                       TimeDiff(current_time',
                                last_seen_timestamps[author.key]))]_vars

\* C17 witness: the third message of an author, 0.997 s after the second,
\* is averaged against a stored 2.0 that was rounded from 2.0015: 1.5 is
\* stored.
C17_Witness ==
    /\ pc = "stamp"
    /\ author_counts[author.key] = 3
    /\ current_time - last_seen_timestamps[author.key] = 997
    /\ average_deltas[author.key] = 1500

\* The outcomes of process_message that pass through an except branch
\* (lines 118-121).
CaughtOutcomes == {"invalid_json", "type_error", "render_error"}

\* process_message returns through an except branch.
ReturnsCaught ==
    /\ pc \in ProcessPcs
    /\ pc' = "poll"
    /\ outcome' \in CaughtOutcomes

\* C18: process_message returns through an except branch only from the
\* decoding, from the counting step, or from the chart update.  Until the
\* counting step has stored the count no dictionary is written, so that
\* the first two leave the three dictionaries as they were when the message
\* was pulled; the third leaves the author with the count, the average and
\* the last-seen time of this message.  Between messages every counted
\* author has all three entries.
C18_AllOrNothing ==
    /\ [][ReturnsCaught => pc \in {"loads", "count", "render"}]_vars
    /\ [][(pc \in {"poll", "loads"} \/ (pc = "count" /\ ReturnsCaught)) =>
            (dicts' = dicts /\ author_order' = author_order)]_vars
    /\ [][(pc = "render" /\ ReturnsCaught) =>
            /\ dicts' = dicts
            /\ CountOf(author.key) = expected[author.key]
            /\ author.key \in DOMAIN average_deltas
            /\ author.key \in DOMAIN last_seen_timestamps
            /\ last_seen_timestamps[author.key] = current_time]_vars
    /\ [][pc = "timing" =>
            (pc' \in {"stamp", "finally"}
               /\ (pc' = "stamp" => author.key \in DOMAIN average_deltas'))]_vars
    /\ [][pc = "stamp" => pc' \in {"render", "finally"}]_vars
    /\ [](pc = "poll" =>
            /\ DOMAIN average_deltas = DOMAIN author_counts
            /\ DOMAIN last_seen_timestamps = DOMAIN author_counts)

\* C18 witness: a message whose author cannot be a dictionary key has been
\* dropped after two messages of two authors and their chart updates.
C18_Witness ==
    /\ Idle
    /\ outcome = "type_error"
    /\ delivered = 3
    /\ Cardinality(DOMAIN author_counts) = 2
    /\ renders = 2

====
